---- MODULE Spec2Model ----
(***************************************************************************)
(* Model of mlflow_extensions/serving/wrapper.py:                          *)
(* CustomServingEnginePyfuncWrapper (load_context, predict,                *)
(* _request_model) and the consumer-side generator                         *)
(* iter_mlflow_predictions.                                                *)
(*                                                                         *)
(* Python objects are records [type, val]; a str object's val is its text. *)
(* An envelope text is a sequence of <<tag, value>> lines (the flat,       *)
(* field-tagged encoding of serde.RequestMessageV1 / ResponseMessageV1).   *)
(***************************************************************************)
EXTENDS Integers, Sequences, FiniteSets, TLC

VARIABLES
    engine,        \* self._engine: "None" or "EngineProcess"
    constructed,   \* number of self._engine_klass(config=...) calls
    started,       \* number of self._engine.start_proc(context) calls
    pc,            \* position of the predict call
    model_input,   \* predict's argument as passed by the caller
    rows,          \* the iterable the comprehension walks (model_input or its values())
    i,             \* 1-based index of the row the comprehension is at
    inflight,      \* <<req>> while oai_http_client.request(...) is blocking, else <<>>
    result,        \* the list the comprehension has built so far
    error,         \* the exception that left predict, "" when none
    requests,      \* history: the HTTP requests the engine client received in this call
    responses,     \* history: the HTTP exchanges that completed in this call
    failures,      \* history: the HTTP calls that failed at transport level
    gen_pc,        \* position of the iter_mlflow_predictions generator
    response,      \* the framework response handed to iter_mlflow_predictions
    predictions,   \* mlflow_response.get("predictions", [])
    k,             \* 1-based index of the prediction the generator is at
    yielded,       \* history: the records the generator has yielded
    gen_error      \* the exception that left the generator, "" when none

vars == <<engine, constructed, started, pc, model_input, rows, i, inflight, result,
          error, requests, responses, failures, gen_pc, response, predictions, k, yielded,
          gen_error>>

adapterVars == <<engine, constructed, started, pc, model_input, rows, i, inflight,
                 result, error, requests, responses, failures>>

unwrapVars == <<gen_pc, response, predictions, k, yielded, gen_error>>

\* ------------------------------------------------------------------ bounds
MaxRows == 2          \* longest batch handed to predict
MaxLoads == 2         \* load_context calls on one adapter instance
MaxPredictions == 3   \* longest predictions list handed to the unwrapper

\* ------------------------------------------------------- the adapter's config
\* __init__'s default endpoint
endpoint == "/chat/completions"

\* ------------------------------------------------------------ envelope codec
HasTag(text, tag) == \E n \in DOMAIN text : text[n][1] = tag

Field(text, tag) == text[CHOOSE n \in DOMAIN text : text[n][1] = tag][2]

Digits == 0..9

IsInt(s) == \E n \in Digits : ToString(n) = s

ParseInt(s) == CHOOSE n \in Digits : ToString(n) = s

RequestFields == <<"method", "timeout", "payload", "request_path">>

\* RequestMessageV1(...).serialize()
SerializeRequest(req) ==
    << <<"method", req.method>>,
       <<"timeout", ToString(req.timeout)>>,
       <<"payload", req.payload>>,
       <<"request_path", req.request_path>> >>

NoRequest == [method |-> "", timeout |-> 0, payload |-> "", request_path |-> ""]

\* RequestMessageV1.deserialize(obj): fails on anything that is not a str holding
\* every field of the record
Deserialize(obj) ==
    IF obj.type # "str"
    THEN [ok |-> FALSE, req |-> NoRequest]
    ELSE IF \E n \in DOMAIN RequestFields : ~HasTag(obj.val, RequestFields[n])
    THEN [ok |-> FALSE, req |-> NoRequest]
    ELSE IF ~IsInt(Field(obj.val, "timeout"))
    THEN [ok |-> FALSE, req |-> NoRequest]
    ELSE [ok |-> TRUE,
          req |-> [method |-> Field(obj.val, "method"),
                   timeout |-> ParseInt(Field(obj.val, "timeout")),
                   payload |-> Field(obj.val, "payload"),
                   request_path |-> Field(obj.val, "request_path")]]

\* ResponseMessageV1(...).serialize()
SerializeResponse(msg) ==
    [type |-> "str",
     val |-> << <<"request_method", msg.request_method>>,
                <<"request_timeout", ToString(msg.request_timeout)>>,
                <<"response_data", msg.response_data>>,
                <<"response_status_code", ToString(msg.response_status_code)>>,
                <<"response_content_type", msg.response_content_type>> >>]

\* ------------------------------------------------------------------ inputs
PyStr(text) == [type |-> "str", val |-> text]

req1 == [method |-> "GET", timeout |-> 1, payload |-> "{}",
         request_path |-> "/chat/completions"]
req2 == [req1 EXCEPT !.request_path = "/v1/embeddings"]
req3 == [method |-> "POST", timeout |-> 2, payload |-> "{\"a\":1}",
         request_path |-> "/chat/completions"]

ValidRows == {PyStr(SerializeRequest(req1)), PyStr(SerializeRequest(req2)),
              PyStr(SerializeRequest(req3))}

\* strings that are no request envelope: a field is missing, or no field at all
MalformedRows == {PyStr(<< <<"method", "GET">>, <<"timeout", "1">>,
                           <<"payload", "{}">> >>),
                  PyStr(<< <<"", "not-an-envelope">> >>)}

\* elements that are no string: a number, a nested list holding a valid envelope
NonStringRows == {[type |-> "int", val |-> <<>>],
                  [type |-> "list", val |-> SerializeRequest(req1)]}

Elements == ValidRows \cup MalformedRows \cup NonStringRows

Batches == UNION {[1..n -> Elements] : n \in 0..MaxRows}

DictKeys == <<"a", "b", "c", "d", "e", "f">>

\* the model_input values a caller may pass
ModelInputs ==
    {[type |-> "list", items |-> b] : b \in Batches}
    \cup {[type |-> "ndarray", items |-> b] : b \in Batches}
    \cup {[type |-> "dict", items |-> [n \in DOMAIN b |-> <<DictKeys[n], b[n]>>]] :
            b \in Batches}
    \cup {[type |-> t, items |-> <<>>] : t \in {"str", "int", "NoneType"}}

\* the HTTP responses the engine's server may give
WithContentType == {<<"Content-Type", "application/json">>, <<"Server", "uvicorn">>}

WithoutContentType == {<<"Server", "uvicorn">>}

HttpResponses ==
    {[status_code |-> 200, text |-> "{\"ok\":1}", headers |-> WithContentType],
     [status_code |-> 404, text |-> "not found", headers |-> WithoutContentType],
     [status_code |-> 500, text |-> "{\"error\":true}", headers |-> WithContentType],
     [status_code |-> 500, text |-> "{\"error\":true}", headers |-> WithoutContentType]}

TransportErrors == {"ConnectError", "ReadTimeout"}

\* ------------------------------------------------------------------ predict
IsContainer_iterable(mi) == mi.type \in {"list", "dict", "ndarray", "str"}

\* isinstance(model_input, (list, dict, np.ndarray))
IsContainer(mi) == mi.type \in {"list", "dict", "ndarray"}

Values_reversed(mi) ==
    [n \in DOMAIN mi.items |-> mi.items[Len(mi.items) + 1 - n][2]]

\* model_input.values()
Values(mi) == [n \in DOMAIN mi.items |-> mi.items[n][2]]

\* the iterable the comprehension walks
Normalize(mi) == IF mi.type = "dict" THEN Values(mi) ELSE mi.items

RequestArgs_path(req) ==
    [method |-> req.method, url |-> req.request_path, timeout |-> req.timeout,
     content |-> req.payload]

\* the keyword arguments of self._engine.oai_http_client.request(...)
RequestArgs(req) ==
    [method |-> req.method, url |-> endpoint, timeout |-> req.timeout,
     content |-> req.payload]

IssueRequest_twice(log, row, req) ==
    Append(Append(log, [row |-> row, args |-> RequestArgs(req)]),
           [row |-> row, args |-> RequestArgs(req)])

\* one call of self._engine.oai_http_client.request(...) reaches the engine client
IssueRequest(log, row, req) == Append(log, [row |-> row, args |-> RequestArgs(req)])

\* response.headers.get(name, default)
HeadersGet(headers, name, default) ==
    IF \E h \in headers : h[1] = name
    THEN (CHOOSE h \in headers : h[1] = name)[2]
    ELSE default

BuildResponse_lowercase(req, resp) ==
    [request_method |-> req.method,
     request_timeout |-> req.timeout,
     response_data |-> resp.text,
     response_status_code |-> resp.status_code,
     response_content_type |-> HeadersGet(resp.headers, "content-type", "")]

\* the ResponseMessageV1 that _request_model builds from a completed exchange
BuildResponse(req, resp) ==
    [request_method |-> req.method,
     request_timeout |-> req.timeout,
     response_data |-> resp.text,
     response_status_code |-> resp.status_code,
     response_content_type |-> HeadersGet(resp.headers, "Content-Type", "")]

Idle == pc \in {"idle", "returned", "raised"}

\* load_context(context)
load_context ==
    /\ Idle
    /\ started < MaxLoads
    /\ engine' = "EngineProcess"
    /\ constructed' = IF engine = "None" THEN constructed + 1 ELSE constructed
    /\ started' = started + 1
    /\ UNCHANGED <<pc, model_input, rows, i, inflight, result, error, requests,
                   responses, failures>>
    /\ UNCHANGED unwrapVars

\* predict(context, model_input): the isinstance check and the values() step.
\* A behaviour follows one predict call: predict keeps nothing between calls (its
\* state is its argument and the comprehension's local list).
predict(mi) ==
    /\ pc = "idle"
    /\ model_input' = mi
    /\ inflight' = <<>>
    /\ result' = <<>>
    /\ requests' = <<>>
    /\ responses' = <<>>
    /\ failures' = <<>>
    /\ i' = 1
    /\ IF ~IsContainer(mi)
       THEN /\ pc' = "raised"
            /\ error' = "ValueError"
            /\ rows' = <<>>
       ELSE /\ pc' = "iterating"
            /\ error' = ""
            /\ rows' = Normalize(mi)
    /\ UNCHANGED <<engine, constructed, started>>
    /\ UNCHANGED unwrapVars

request_model_lenient ==
    /\ pc = "iterating"
    /\ i <= Len(rows)
    /\ LET d == Deserialize(rows[i]) IN
       /\ pc' = "waiting"
       /\ inflight' = <<d.req>>
       /\ requests' = IssueRequest(requests, i, d.req)
       /\ UNCHANGED error
    /\ UNCHANGED <<engine, constructed, started, model_input, rows, i, result,
                   responses, failures>>
    /\ UNCHANGED unwrapVars

\* the comprehension takes the next row: deserialize it, then _request_model
\* issues the HTTP request and blocks. Without load_context self._engine is
\* None and self._engine.oai_http_client raises AttributeError.
request_model ==
    /\ pc = "iterating"
    /\ i <= Len(rows)
    /\ LET d == Deserialize(rows[i]) IN
       IF ~d.ok
       THEN /\ pc' = "raised"
            /\ error' = "MalformedEnvelope"
            /\ UNCHANGED <<inflight, requests>>
       ELSE IF engine = "None"
       THEN /\ pc' = "raised"
            /\ error' = "AttributeError"
            /\ UNCHANGED <<inflight, requests>>
       ELSE /\ pc' = "waiting"
            /\ inflight' = <<d.req>>
            /\ requests' = IssueRequest(requests, i, d.req)
            /\ UNCHANGED error
    /\ UNCHANGED <<engine, constructed, started, model_input, rows, i, result,
                   responses, failures>>
    /\ UNCHANGED unwrapVars

\* the HTTP exchange completes with any status: _request_model returns the
\* serialized ResponseMessageV1 and the comprehension appends it
http_complete(resp) ==
    /\ pc = "waiting"
    /\ result' = Append(result, SerializeResponse(BuildResponse(inflight[1], resp)))
    /\ responses' = Append(responses, [row |-> i, resp |-> resp])
    /\ inflight' = <<>>
    /\ i' = i + 1
    /\ pc' = "iterating"
    /\ UNCHANGED <<engine, constructed, started, model_input, rows, error, requests,
                   failures>>
    /\ UNCHANGED unwrapVars

http_fail_synthetic(e) ==
    /\ pc = "waiting"
    /\ result' = Append(result, SerializeResponse(
                     [request_method |-> inflight[1].method,
                      request_timeout |-> inflight[1].timeout,
                      response_data |-> e,
                      response_status_code |-> 503,
                      response_content_type |-> ""]))
    /\ failures' = Append(failures, [row |-> i, error |-> e])
    /\ inflight' = <<>>
    /\ i' = i + 1
    /\ pc' = "iterating"
    /\ UNCHANGED <<engine, constructed, started, model_input, rows, error, requests,
                   responses>>
    /\ UNCHANGED unwrapVars

\* oai_http_client.request raises (connection refused, timeout): nothing catches it
http_fail(e) ==
    /\ pc = "waiting"
    /\ pc' = "raised"
    /\ error' = e
    /\ inflight' = <<>>
    /\ failures' = Append(failures, [row |-> i, error |-> e])
    /\ UNCHANGED <<engine, constructed, started, model_input, rows, i, result,
                   requests, responses>>
    /\ UNCHANGED unwrapVars

\* the comprehension is exhausted: predict returns the list
predict_return ==
    /\ pc = "iterating"
    /\ i > Len(rows)
    /\ pc' = "returned"
    /\ UNCHANGED <<engine, constructed, started, model_input, rows, i, inflight,
                   result, error, requests, responses, failures>>
    /\ UNCHANGED unwrapVars

\* ------------------------------------------------- iter_mlflow_predictions
\* Python values are tagged tuples: <<"str", chars>>, <<"int", n>>,
\* <<"dict", members>> with members a sequence of <<key chars, value>>,
\* <<"list", elements>>, <<"NoneType", <<>>>>. A text is a sequence of
\* one-character strings.
PyNone == <<"NoneType", <<>>>>

K_predictions == <<"p", "r", "e", "d", "i", "c", "t", "i", "o", "n", "s">>
K_status == <<"s", "t", "a", "t", "u", "s">>
K_data == <<"d", "a", "t", "a">>

DigitChars == {"0", "1", "2", "3", "4", "5", "6", "7", "8", "9"}

DigitVal(c) == CHOOSE d \in 0..9 : ToString(d) = c

Failed == [ok |-> FALSE, val |-> PyNone, next |-> 0]

\* the characters of a JSON string up to its closing quote; \" and \\ are the
\* escapes read
RECURSIVE ParseChars(_, _, _)
ParseChars(s, p, acc) ==
    IF p > Len(s) THEN Failed
    ELSE IF s[p] = "\"" THEN [ok |-> TRUE, val |-> <<"str", acc>>, next |-> p + 1]
    ELSE IF s[p] = "\\"
    THEN IF p + 1 <= Len(s) /\ s[p + 1] \in {"\"", "\\"}
         THEN ParseChars(s, p + 2, Append(acc, s[p + 1]))
         ELSE Failed
    ELSE ParseChars(s, p + 1, Append(acc, s[p]))

\* the digits of a JSON integer
RECURSIVE ParseDigits(_, _, _)
ParseDigits(s, p, acc) ==
    IF p <= Len(s) /\ s[p] \in DigitChars
    THEN ParseDigits(s, p + 1, 10 * acc + DigitVal(s[p]))
    ELSE [ok |-> TRUE, val |-> <<"int", acc>>, next |-> p]

\* json's scanner, for the JSON texts made of objects, strings, integers and
\* null, without whitespace: the value starting at s[p] and where it ends
RECURSIVE ParseValue(_, _)
RECURSIVE ParseMembers(_, _, _)
ParseValue(s, p) ==
    IF p > Len(s) THEN Failed
    ELSE IF s[p] = "\"" THEN ParseChars(s, p + 1, <<>>)
    ELSE IF s[p] = "0" THEN [ok |-> TRUE, val |-> <<"int", 0>>, next |-> p + 1]
    ELSE IF s[p] \in DigitChars THEN ParseDigits(s, p, 0)
    ELSE IF s[p] = "n"
    THEN IF p + 3 <= Len(s) /\ SubSeq(s, p, p + 3) = <<"n", "u", "l", "l">>
         THEN [ok |-> TRUE, val |-> PyNone, next |-> p + 4]
         ELSE Failed
    ELSE IF s[p] = "{"
    THEN IF p + 1 <= Len(s) /\ s[p + 1] = "}"
         THEN [ok |-> TRUE, val |-> <<"dict", <<>>>>, next |-> p + 2]
         ELSE ParseMembers(s, p + 1, <<>>)
    ELSE Failed

\* the members of a JSON object from s[p] to its closing brace
ParseMembers(s, p, acc) ==
    IF p > Len(s) \/ s[p] # "\"" THEN Failed
    ELSE LET key == ParseChars(s, p + 1, <<>>) IN
         IF ~key.ok \/ key.next > Len(s) \/ s[key.next] # ":" THEN Failed
         ELSE LET v == ParseValue(s, key.next + 1) IN
              IF ~v.ok \/ v.next > Len(s) THEN Failed
              ELSE IF s[v.next] = "}"
              THEN [ok |-> TRUE,
                    val |-> <<"dict", Append(acc, <<key.val[2], v.val>>)>>,
                    next |-> v.next + 1]
              ELSE IF s[v.next] = ","
              THEN ParseMembers(s, v.next + 1, Append(acc, <<key.val[2], v.val>>))
              ELSE Failed

\* json.loads(obj): TypeError on what is not a str, JSONDecodeError on a text
\* that is not one JSON value
JsonLoads(obj) ==
    IF obj[1] # "str" THEN [ok |-> FALSE, val |-> PyNone, exc |-> "TypeError"]
    ELSE LET r == ParseValue(obj[2], 1) IN
         IF r.ok /\ r.next = Len(obj[2]) + 1
         THEN [ok |-> TRUE, val |-> r.val, exc |-> ""]
         ELSE [ok |-> FALSE, val |-> PyNone, exc |-> "JSONDecodeError"]

\* d.get(key, default): the value of the last member with that key
DictGet(d, key, default) ==
    IF \E n \in DOMAIN d[2] : d[2][n][1] = key
    THEN d[2][CHOOSE n \in DOMAIN d[2] :
                /\ d[2][n][1] = key
                /\ \A m \in DOMAIN d[2] : d[2][m][1] = key => m <= n][2]
    ELSE default

prediction_data_strict(data) ==
    IF JsonLoads(data).ok THEN JsonLoads(data).val ELSE PyNone

\* try: json.loads(data) / except Exception: data
prediction_data(data) ==
    IF JsonLoads(data).ok THEN JsonLoads(data).val ELSE data

\* the text of a JSON string holding chars
RECURSIVE Escape(_)
Escape(chars) ==
    IF chars = <<>> THEN <<>>
    ELSE (IF Head(chars) \in {"\"", "\\"} THEN <<"\\", Head(chars)>>
          ELSE <<Head(chars)>>) \o Escape(Tail(chars))

Quote(chars) == <<"\"">> \o Escape(chars) \o <<"\"">>

\* the text of a prediction {"status": <status>, "data": "<data>"}
EntryText(status, data) ==
    <<"{">> \o Quote(K_status) \o <<":">> \o status \o <<",">>
            \o Quote(K_data) \o <<":">> \o Quote(data) \o <<"}">>

T_object == <<"{", "\"", "a", "\"", ":", "1", "}">>
T_notjson == <<"n", "o", "t", "-", "j", "s", "o", "n">>
T_string == <<"\"", "h", "i", "\"">>
T_truncated == <<"{", "\"", "a", "\"", ":", "1">>

\* the predictions a framework response may hold, each with the record the
\* generator is to yield for it ("object" tells whether the entry is a JSON object)
Cases ==
    << [entry |-> <<"str", EntryText(<<"2", "0", "0">>, T_object)>>, object |-> TRUE,
        status |-> <<"int", 200>>,
        data |-> <<"dict", << <<(<<"a">>), <<"int", 1>> >> >> >>],
       [entry |-> <<"str", EntryText(<<"5", "0", "0">>, T_notjson)>>, object |-> TRUE,
        status |-> <<"int", 500>>, data |-> <<"str", T_notjson>>],
       [entry |-> <<"str", EntryText(<<"2", "0", "0">>, T_string)>>, object |-> TRUE,
        status |-> <<"int", 200>>, data |-> <<"str", <<"h", "i">> >>],
       [entry |-> <<"str", EntryText(<<"2", "0", "0">>, T_truncated)>>, object |-> TRUE,
        status |-> <<"int", 200>>, data |-> <<"str", T_truncated>>],
       [entry |-> <<"str", <<"{">> \o Quote(K_status) \o <<":", "4", "0", "4", "}">> >>,
        object |-> TRUE, status |-> <<"int", 404>>, data |-> <<"str", <<>> >>],
       [entry |-> <<"str", <<"{">> \o Quote(K_data) \o <<":">> \o Quote(<<"7">>)
                              \o <<"}">> >>,
        object |-> TRUE, status |-> PyNone, data |-> <<"int", 7>>],
       [entry |-> <<"str", <<"{">> \o Quote(K_data) \o <<":">> \o T_object
                              \o <<"}">> >>,
        object |-> TRUE, status |-> PyNone,
        data |-> <<"dict", << <<(<<"a">>), <<"int", 1>> >> >> >>],
       [entry |-> <<"str", <<"7">> >>, object |-> FALSE, status |-> PyNone,
        data |-> PyNone],
       [entry |-> <<"str", T_notjson>>, object |-> FALSE, status |-> PyNone,
        data |-> PyNone] >>

PredictionLists == UNION {[1..n -> {Cases[c].entry : c \in DOMAIN Cases}] :
                            n \in 0..MaxPredictions}

\* response.json() of the framework responses a consumer may pass
Responses ==
    {<<"dict", << <<K_predictions, <<"list", l>> >> >> >> : l \in PredictionLists}
    \cup {<<"dict", <<>> >>}

\* iter_mlflow_predictions(response): the call makes the generator, its body
\* has not run yet
iter_mlflow_predictions(r) ==
    /\ gen_pc = "none"
    /\ gen_pc' = "created"
    /\ response' = r
    /\ UNCHANGED <<predictions, k, yielded, gen_error>>
    /\ UNCHANGED adapterVars

\* next(generator): run the body to its next yield, its end or an exception.
\* The first next reads response.json().get("predictions", []).
gen_next ==
    /\ gen_pc \in {"created", "suspended"}
    /\ LET preds == IF gen_pc = "created"
                    THEN DictGet(response, K_predictions, <<"list", <<>>>>)[2]
                    ELSE predictions
       IN
       /\ predictions' = preds
       /\ IF k > Len(preds)
          THEN /\ gen_pc' = "exhausted"
               /\ UNCHANGED <<k, yielded, gen_error>>
          ELSE LET prediction == JsonLoads(preds[k]) IN
               IF ~prediction.ok
               THEN /\ gen_pc' = "raised"
                    /\ gen_error' = prediction.exc
                    /\ UNCHANGED <<k, yielded>>
               ELSE IF prediction.val[1] # "dict"
               THEN /\ gen_pc' = "raised"
                    /\ gen_error' = "AttributeError"
                    /\ UNCHANGED <<k, yielded>>
               ELSE /\ yielded' = Append(yielded,
                          [status |-> DictGet(prediction.val, K_status, PyNone),
                           data |-> prediction_data(
                                      DictGet(prediction.val, K_data, <<"str", <<>>>>))])
                    /\ k' = k + 1
                    /\ gen_pc' = "suspended"
                    /\ UNCHANGED gen_error
    /\ UNCHANGED response
    /\ UNCHANGED adapterVars

NextUnwrap ==
    \/ \E r \in Responses : iter_mlflow_predictions(r)
    \/ gen_next

InitUnwrap ==
    /\ gen_pc = "none"
    /\ response = <<>>
    /\ predictions = <<>>
    /\ k = 1
    /\ yielded = <<>>
    /\ gen_error = ""

InitAdapter ==
    /\ engine = "None"
    /\ constructed = 0
    /\ started = 0
    /\ pc = "idle"
    /\ model_input = [type |-> "NoneType", items |-> <<>>]
    /\ rows = <<>>
    /\ i = 1
    /\ inflight = <<>>
    /\ result = <<>>
    /\ error = ""
    /\ requests = <<>>
    /\ responses = <<>>
    /\ failures = <<>>

Init == InitAdapter /\ InitUnwrap

Next ==
    \/ load_context
    \/ \E mi \in ModelInputs : predict(mi)
    \/ request_model
    \/ \E resp \in HttpResponses : http_complete(resp)
    \/ \E e \in TransportErrors : http_fail(e)
    \/ predict_return

Spec == Init /\ [][Next]_vars

\* the consumer-side generator alone
SpecUnwrap == Init /\ [][NextUnwrap]_vars

\* ------------------------------------------------------------------ claims
\* the rows as the caller submitted them: a list's or an array's elements, a
\* mapping's values in the mapping's order
Submitted ==
    IF model_input.type = "dict"
    THEN [n \in DOMAIN model_input.items |-> model_input.items[n][2]]
    ELSE model_input.items

Accepted == model_input.type \in {"list", "dict", "ndarray"}

Decodes(row) == Deserialize(row).ok

\* index of the first submitted row that does not decode, Len + 1 when all do
FirstUndecodable ==
    IF \E n \in DOMAIN Submitted : ~Decodes(Submitted[n])
    THEN CHOOSE n \in DOMAIN Submitted :
            /\ ~Decodes(Submitted[n])
            /\ \A m \in 1..(n - 1) : Decodes(Submitted[m])
    ELSE Len(Submitted) + 1

\* C1: when predict returns, it returns exactly one encoded response per
\* submitted row, and output[n] is the response built from the HTTP exchange
\* made for input[n] (same length, same order, nothing dropped or duplicated).
InvC1 ==
    pc = "returned" =>
        /\ Len(result) = Len(Submitted)
        /\ Len(responses) = Len(Submitted)
        /\ \A n \in DOMAIN Submitted :
            /\ responses[n].row = n
            /\ requests[n].row = n
            /\ requests[n].args.content = Deserialize(Submitted[n]).req.payload
            /\ result[n] = SerializeResponse(
                              BuildResponse(Deserialize(Submitted[n]).req,
                                            responses[n].resp))

WitC1 ==
    /\ pc = "returned"
    /\ model_input.type = "dict"
    /\ Len(result) = 2
    /\ Submitted[1] # Submitted[2]
    /\ responses[1].resp # responses[2].resp

\* C2: the engine client receives one request per row, in row order, each row
\* once, and never a request while an earlier one is still in flight; a call
\* that returns has issued exactly one request per submitted row.
InvC2 ==
    /\ \A n \in DOMAIN requests : requests[n].row = n
    /\ \A n \in DOMAIN responses : responses[n].row = n
    /\ Len(requests) <= Len(responses) + Len(failures) + 1
    /\ (Len(requests) = Len(responses) + Len(failures) + 1) <=> (pc = "waiting")
    /\ pc = "returned" => Len(requests) = Len(Submitted)

WitC2 ==
    /\ pc = "waiting"
    /\ Len(requests) = 2
    /\ Len(responses) = 1

\* C3: a batch holding a row that does not decode never returns a result; when
\* the rows before the first such row have been answered, predict fails with
\* the decoding error, the requests issued are exactly those of the rows before
\* it, and no request is ever issued for that row or a later one.
InvC3 ==
    (Accepted /\ FirstUndecodable <= Len(Submitted)) =>
        /\ pc # "returned"
        /\ \A n \in DOMAIN requests : requests[n].row < FirstUndecodable
        /\ (pc = "raised" /\ failures = <<>> /\ Len(responses) = FirstUndecodable - 1)
              => error = "MalformedEnvelope"
        /\ (pc = "raised" /\ error = "MalformedEnvelope") =>
            /\ Len(requests) = FirstUndecodable - 1
            /\ Len(responses) = FirstUndecodable - 1

WitC3 ==
    /\ pc = "raised"
    /\ error = "MalformedEnvelope"
    /\ FirstUndecodable = 2
    /\ Submitted[2].type = "str"
    /\ Len(requests) = 1
    /\ Len(responses) = 1

\* C4: predict on a single string, a number or None fails with the
\* invalid-input-shape error (the ValueError of the isinstance check) and
\* issues no HTTP request.
InvC4 ==
    (pc # "idle" /\ model_input.type \in {"str", "int", "NoneType"}) =>
        /\ pc = "raised"
        /\ error = "ValueError"
        /\ requests = <<>>
        /\ result = <<>>

WitC4 ==
    /\ pc = "raised"
    /\ model_input.type = "str"
    /\ error = "ValueError"

HasNonString == \E n \in DOMAIN Submitted : Submitted[n].type # "str"

\* C5: a container holding a non-string element is rejected by shape
\* validation before dispatch: no HTTP request is issued for any row of the
\* call, the valid rows before the element included, and the call never ends
\* otherwise than with the invalid-input-shape error.
CexC5 ==
    (Accepted /\ HasNonString) =>
        /\ requests = <<>>
        /\ pc \notin {"waiting", "returned"}

HeaderOf(resp) ==
    IF \E h \in resp.headers : h[1] = "Content-Type"
    THEN (CHOOSE h \in resp.headers : h[1] = "Content-Type")[2]
    ELSE ""

\* C6: every completed HTTP exchange, whatever its status code, yields a
\* response record (no error is raised for it) whose status code and body are
\* the HTTP response's, whose method and timeout are the request's, and whose
\* content type is the Content-Type header, "" when the header is absent.
InvC6 ==
    /\ Len(result) = Len(responses)
    /\ error \in {"", "ValueError", "MalformedEnvelope", "AttributeError"}
                 \cup TransportErrors
    /\ \A n \in DOMAIN responses :
        /\ result[n].type = "str"
        /\ Field(result[n].val, "response_status_code")
              = ToString(responses[n].resp.status_code)
        /\ Field(result[n].val, "response_data") = responses[n].resp.text
        /\ Field(result[n].val, "request_method") = requests[n].args.method
        /\ Field(result[n].val, "request_timeout")
              = ToString(requests[n].args.timeout)
        /\ Field(result[n].val, "response_content_type")
              = HeaderOf(responses[n].resp)

WitC6 ==
    /\ Len(responses) = 2
    /\ responses[1].resp.status_code = 500
    /\ responses[2].resp.status_code = 404
    /\ HeaderOf(responses[1].resp) = "application/json"
    /\ Field(result[2].val, "response_content_type") = ""
    /\ requests[1].args.method # requests[2].args.method

\* C7: a transport-level failure of the call for row n ends predict with that
\* failure: no response record stands for row n, row n was requested once, no
\* later row is requested, and predict does not return.
InvC7 ==
    failures # <<>> =>
        /\ Len(failures) = 1
        /\ pc = "raised"
        /\ error = failures[1].error
        /\ Len(requests) = failures[1].row
        /\ \A n \in DOMAIN requests : requests[n].row = n
        /\ Len(responses) = failures[1].row - 1
        /\ Len(result) = failures[1].row - 1

WitC7 ==
    /\ failures # <<>>
    /\ failures[1].row = 1
    /\ failures[1].error = "ReadTimeout"
    /\ Len(Submitted) = 2
    /\ FirstUndecodable = 3
    /\ pc = "raised"

\* C8: over any sequence of load_context calls the engine handle is created
\* once and its start routine is invoked once: a load_context on an adapter
\* whose handle exists does not start it again.
CexC8 ==
    /\ constructed <= 1
    /\ started <= 1

SameButPath(a, b) ==
    /\ a.method = b.method
    /\ a.timeout = b.timeout
    /\ a.payload = b.payload
    /\ a.request_path # b.request_path

\* C9: every request issued targets the configured endpoint with the row's
\* method, timeout and payload, and two rows that differ only in request_path
\* cause identical calls.
InvC9 ==
    /\ \A n \in DOMAIN requests :
        /\ requests[n].args.url = endpoint
        /\ requests[n].args.method = Deserialize(Submitted[requests[n].row]).req.method
        /\ requests[n].args.timeout = Deserialize(Submitted[requests[n].row]).req.timeout
        /\ requests[n].args.content = Deserialize(Submitted[requests[n].row]).req.payload
    /\ \A n, m \in DOMAIN requests :
        SameButPath(Deserialize(Submitted[requests[n].row]).req,
                    Deserialize(Submitted[requests[m].row]).req)
            => requests[n].args = requests[m].args

WitC9 ==
    \E n, m \in DOMAIN requests :
        /\ requests[n].row = n
        /\ requests[m].row = m
        /\ SameButPath(Deserialize(Submitted[n]).req, Deserialize(Submitted[m]).req)
        /\ Deserialize(Submitted[m]).req.request_path # endpoint

\* the predictions list of the response the generator was made for
Given ==
    IF gen_pc = "none" \/ response[2] = <<>> THEN <<>> ELSE response[2][1][2][2]

CaseOf(entry) == Cases[CHOOSE c \in DOMAIN Cases : Cases[c].entry = entry]

====
